---------------------------- MODULE Spec2Model ----------------------------
(***************************************************************************)
(* A model of the driver of the sensor-fusion filter, src/src/main.cpp:    *)
(* option parsing, construction of the filter, the opening of the two CSV  *)
(* files, the websocket message handler of simulator mode, the replay loop *)
(* of file mode and the final report.                                      *)
(*                                                                         *)
(* Strings are sequences of one-character strings.  A measurement line is  *)
(* a sequence of whitespace-separated tokens.  The filter classes (UKF,    *)
(* EKF), Tools::CalculateRMSE and MeasurementPackage are declared in       *)
(* headers that are not part of src/; the filter is modelled from the      *)
(* specification (sections 4.4, 4.5, 7 and 9) and its state vector is kept *)
(* as the log of the steps that produced it.                               *)
(***************************************************************************)
EXTENDS Integers, Sequences, FiniteSets, TLC

VARIABLES
    pc,              \* position of main(): see the actions below
    argv,            \* the command line, a sequence of << opt, optarg >>
    fsInput,         \* environment: the paths that can be opened for reading
    policy,          \* the filter's policy for a disabled sensor (spec 4.5)
    verbose, use_laser, use_radar, use_simulator,
    inputDataFile, outputDataFile, filter_choice, std_a, std_yawdd,
    filter,          \* the object behind Filter* filter, or NoFilter
    heap,            \* [created, deleted]: filter objects made and destroyed
    estimations, ground_truth,
    RMSE,            \* main's VectorXd RMSE (line 194)
    in_file,         \* [open, read]: the input stream and the lines read
    out_file,        \* [open, rows]: the output stream and the rows written
    outTruncated,    \* the output path was created or truncated on disk
    calls,           \* log of the packages passed to ProcessMeasurement
    accepted,        \* log of the measurement lines accepted, in arrival order
    ws_sent,         \* every reply sent over the websocket, in order
    last,            \* what the handling of the latest message did
    steps,           \* lines read or messages received so far
    report,          \* what the final report printed, or NoReport
    memory,          \* what the last call of getMeasurement left behind
    fin, fout        \* input and result of a function applied on its own

vars == << pc, argv, fsInput, policy, verbose, use_laser, use_radar,
           use_simulator, inputDataFile, outputDataFile, filter_choice,
           std_a, std_yawdd, filter, heap, estimations, ground_truth, RMSE,
           in_file, out_file, outTruncated, calls, accepted, ws_sent, last,
           steps, report, memory, fin, fout >>

-----------------------------------------------------------------------------
(* Bounds of the model.                                                    *)

\* longest string given to hasData on its own
MaxStrLen == 5
\* longest free-form token sequence given to getMeasurement on its own
MaxTokens == 3
\* lines of the input file, or websocket messages, in one run
MaxSteps == 2

-----------------------------------------------------------------------------
(* std::string: positions are 0-based, npos is the largest size_t.         *)

\* Stands for 2^64, the modulus of size_t: the model's integers have 32 bits
\* and every string of the model is far shorter than either modulus.
SIZE_T_MOD == 1073741824

npos == SIZE_T_MOD - 1

\* s.substr(pos, count), pos <= size: the characters [pos, min(pos+count, size))
substr(s, pos, count) ==
    LET n == IF count < Len(s) - pos THEN count ELSE Len(s) - pos
    IN  SubSeq(s, pos + 1, pos + n)

\* s.find(pat): the first position at which pat occurs, or npos
find(s, pat) ==
    LET hits == { i \in 0 .. (Len(s) - Len(pat)) :
                     SubSeq(s, i + 1, i + Len(pat)) = pat }
    IN  IF hits = {} THEN npos
        ELSE CHOOSE i \in hits : \A j \in hits : i <= j

\* s.find_first_of(c) for a one-character set
find_first_of(s, c) == find(s, << c >>)

NULL_STR == << "n", "u", "l", "l" >>

\* b2 - b1 + 1 is computed in size_t and wraps when ']' comes before '['.
hasData(s) ==
    LET found_null == find(s, NULL_STR)
        b1 == find_first_of(s, "[")
        b2 == find_first_of(s, "]")
    IN  IF found_null # npos THEN << >>
        ELSE IF b1 # npos /\ b2 # npos
             THEN substr(s, b1, (b2 - b1 + 1) % SIZE_T_MOD)
             ELSE << >>

-----------------------------------------------------------------------------
(* getMeasurement, lines 128-167.  The istringstream is the sequence of    *)
(* tokens left and its fail state.                                         *)

NumTokens == { "0", "1", "2", "3", "4", "5", "6", "7" }

\* the value a numeric token converts to
ParseNum(t) ==
    CASE t = "0" -> 0 [] t = "1" -> 1 [] t = "2" -> 2 [] t = "3" -> 3
      [] t = "4" -> 4 [] t = "5" -> 5 [] t = "6" -> 6 [] t = "7" -> 7

\* iss >> sensor_type for a std::string: the first token, or "" for a line
\* without one (the stream fails)
Tag(line) == IF line = << >> THEN "" ELSE Head(line)

\* the tokens the stream holds after the extraction of the tag
Rest(line) == IF line = << >> THEN << >> ELSE Tail(line)

\* How many of the tokens the numeric extractions consume: the numbers up to
\* the first token that is none, or up to the end
Lead(toks) ==
    CHOOSE n \in 0..Len(toks) :
        /\ \A i \in 1..n : toks[i] \in NumTokens
        /\ n = Len(toks) \/ toks[n + 1] \notin NumTokens

\* The k-th `iss >> v` after the tag, v being numeric and holding old before
\* the extraction, in a line of which the extractions consume lead tokens.
\* A token that is no number stores 0 and sets failbit; a stream that already
\* failed, or is at its end, leaves v untouched (kept).
ReadNum(toks, lead, k, old) ==
    IF k <= lead
    THEN [ val |-> ParseNum(toks[k]), kept |-> FALSE ]
    ELSE IF k = lead + 1 /\ k <= Len(toks)
         THEN [ val |-> 0, kept |-> FALSE ]
         ELSE [ val |-> old, kept |-> TRUE ]

\* The objects of lines 130-133 are not initialized: meas_package's
\* sensor_type_ and timestamp_, the local timestamp and the eleven floats.
\* A memory is what they hold: mem when the call begins, and what the call
\* leaves behind when it returns.  This one is all zero; LASER is the first
\* enumerator.
ZeroMemory ==
    [ sensor_type_ |-> "LASER", timestamp_ |-> 0, timestamp |-> 0,
      px |-> 0, py |-> 0, ro |-> 0, theta |-> 0, ro_dot |-> 0,
      gt |-> << 0, 0, 0, 0, 0, 0 >> ]

\* lines 164-166: the package of a frame
Package(f) ==
    [ sensor_type_ |-> f.sensor_type_,
      raw_measurements_ |-> f.raw_measurements_,
      timestamp_ |-> f.timestamp_, ground_truth_ |-> f.ground_truth_ ]

\* the objects of lines 130-133 as a frame leaves them
Locals(f) ==
    [ sensor_type_ |-> f.sensor_type_, timestamp_ |-> f.timestamp_,
      timestamp |-> f.timestamp, px |-> f.px, py |-> f.py,
      ro |-> f.ro, theta |-> f.theta, ro_dot |-> f.ro_dot,
      gt |-> f.ground_truth_ ]

\* The frame of one call that begins with the memory mem: the package
\* returned (the first four fields), the locals as the call leaves them, and
\* kept, the objects that were read without having been written
Frame(sensor_measurement, mem) ==
    LET toks == Rest(sensor_measurement)
        n    == Lead(toks)
    IN  IF Tag(sensor_measurement) = "L"
        THEN [ sensor_type_ |-> "LASER",
               raw_measurements_ |-> << ReadNum(toks, n, 1, mem.px).val,
                                        ReadNum(toks, n, 2, mem.py).val >>,
               timestamp_ |-> ReadNum(toks, n, 3, mem.timestamp).val,
               ground_truth_ |->
                   [ i \in 1..6 |-> ReadNum(toks, n, i + 3, mem.gt[i]).val ],
               timestamp |-> ReadNum(toks, n, 3, mem.timestamp).val,
               px |-> ReadNum(toks, n, 1, mem.px).val,
               py |-> ReadNum(toks, n, 2, mem.py).val,
               ro |-> mem.ro, theta |-> mem.theta, ro_dot |-> mem.ro_dot,
               kept |-> [ sensor_type_ |-> FALSE, timestamp_ |-> FALSE,
                          timestamp |-> ReadNum(toks, n, 3, mem.timestamp).kept,
                          px |-> ReadNum(toks, n, 1, mem.px).kept,
                          py |-> ReadNum(toks, n, 2, mem.py).kept,
                          ro |-> FALSE, theta |-> FALSE, ro_dot |-> FALSE,
                          gt |-> [ i \in 1..6 |->
                                     ReadNum(toks, n, i + 3, mem.gt[i]).kept ] ] ]
        ELSE IF Tag(sensor_measurement) = "R"
        THEN [ sensor_type_ |-> "RADAR",
               raw_measurements_ |-> << ReadNum(toks, n, 1, mem.ro).val,
                                        ReadNum(toks, n, 2, mem.theta).val,
                                        ReadNum(toks, n, 3, mem.ro_dot).val >>,
               timestamp_ |-> ReadNum(toks, n, 4, mem.timestamp).val,
               ground_truth_ |->
                   [ i \in 1..6 |-> ReadNum(toks, n, i + 4, mem.gt[i]).val ],
               timestamp |-> ReadNum(toks, n, 4, mem.timestamp).val,
               px |-> mem.px, py |-> mem.py,
               ro |-> ReadNum(toks, n, 1, mem.ro).val,
               theta |-> ReadNum(toks, n, 2, mem.theta).val,
               ro_dot |-> ReadNum(toks, n, 3, mem.ro_dot).val,
               kept |-> [ sensor_type_ |-> FALSE, timestamp_ |-> FALSE,
                          timestamp |-> ReadNum(toks, n, 4, mem.timestamp).kept,
                          px |-> FALSE, py |-> FALSE,
                          ro |-> ReadNum(toks, n, 1, mem.ro).kept,
                          theta |-> ReadNum(toks, n, 2, mem.theta).kept,
                          ro_dot |-> ReadNum(toks, n, 3, mem.ro_dot).kept,
                          gt |-> [ i \in 1..6 |->
                                     ReadNum(toks, n, i + 4, mem.gt[i]).kept ] ] ]
        ELSE [ sensor_type_ |-> mem.sensor_type_,
               raw_measurements_ |-> << >>,
               timestamp_ |-> mem.timestamp_,
               ground_truth_ |->
                   [ i \in 1..6 |-> ReadNum(toks, n, i, mem.gt[i]).val ],
               timestamp |-> mem.timestamp,
               px |-> mem.px, py |-> mem.py,
               ro |-> mem.ro, theta |-> mem.theta, ro_dot |-> mem.ro_dot,
               kept |-> [ sensor_type_ |-> TRUE, timestamp_ |-> TRUE,
                          timestamp |-> FALSE, px |-> FALSE, py |-> FALSE,
                          ro |-> FALSE, theta |-> FALSE, ro_dot |-> FALSE,
                          gt |-> [ i \in 1..6 |->
                                     ReadNum(toks, n, i, mem.gt[i]).kept ] ] ]

\* The MeasurementPackage returned by a call that begins with the memory mem
getMeasurement(sensor_measurement, mem) ==
    Package(Frame(sensor_measurement, mem))

\* The memory the call leaves behind
Left(sensor_measurement, mem) == Locals(Frame(sensor_measurement, mem))

\* The measurement lines of a run: two well-formed, one with an unknown
\* sensor tag, one whose last field is missing
LineL     == << "L", "1", "0", "0", "1", "0", "1", "0", "1", "0" >>
LineR     == << "R", "0", "1", "1", "1", "0", "1", "1", "0", "0", "1" >>
LineX     == << "X", "1", "0", "0", "1", "0", "1", "0", "1", "0" >>
LineShort == << "L", "1", "0", "0", "1", "0", "1", "0", "1" >>

Lines == { LineL, LineR, LineX, LineShort }

SeqsUpTo(S, n) == UNION { [ 1 .. k -> S ] : k \in 0 .. n }

Tokens == { "L", "R", "1", "abc" }

\* The lines getMeasurement is applied to on its own: the lines of a run,
\* every short token sequence, and the well-formed lines with one field that
\* is no number
TokenLines ==
    Lines \cup SeqsUpTo(Tokens, MaxTokens) \cup
    { [ LineL EXCEPT ![i] = "abc" ] : i \in 2 .. Len(LineL) } \cup
    { [ LineR EXCEPT ![i] = "abc" ] : i \in 2 .. Len(LineR) }

\* the numbers the lines of the model carry
LineValues ==
    UNION { { ParseNum(l[i]) :
                i \in { j \in 1 .. Len(l) : l[j] \in NumTokens } } :
            l \in TokenLines }

\* stands for every number that is none of those the lines carry
OtherValue == -1

\* What a number that is read without having been written can hold: anything.
\* These are the numbers of the model: what the previous call left there
\* (stale), every number a line carries, zero, and OtherValue for the rest.
\* The filter computes with these values: Initialize stores the timestamp
\* and Predict takes its difference with the stored one.
Indeterminate(stale) == { stale } \cup LineValues \cup { 0, OtherValue }

\* The same for the enum sensor_type_: either enumerator, or neither
IndeterminateType(stale) == { stale, "LASER", "RADAR", "GARBAGE" }

\* One object when the call begins: anything if the call reads it without
\* writing it, and else what it held (the call does not depend on it)
Cell(kept, stale) == IF kept THEN Indeterminate(stale) ELSE { stale }

\* The memories that differ from prev in objects marked in k only
Cells(k, prev) ==
    [ sensor_type_ : IF k.sensor_type_
                     THEN IndeterminateType(prev.sensor_type_)
                     ELSE { prev.sensor_type_ },
      timestamp_ : Cell(k.timestamp_, prev.timestamp_),
      timestamp  : Cell(k.timestamp, prev.timestamp),
      px : Cell(k.px, prev.px), py : Cell(k.py, prev.py),
      ro : Cell(k.ro, prev.ro), theta : Cell(k.theta, prev.theta),
      ro_dot : Cell(k.ro_dot, prev.ro_dot),
      gt : Cell(k.gt[1], prev.gt[1]) \X Cell(k.gt[2], prev.gt[2])
             \X Cell(k.gt[3], prev.gt[3]) \X Cell(k.gt[4], prev.gt[4])
             \X Cell(k.gt[5], prev.gt[5]) \X Cell(k.gt[6], prev.gt[6]) ]

\* The memories the call on a line can begin with, prev being what the
\* previous call left
Entry(sensor_measurement, prev) ==
    Cells(Frame(sensor_measurement, prev).kept, prev)

-----------------------------------------------------------------------------
(* The filter behind Filter*: modelled from the specification.  x_ is the  *)
(* log of the steps that produced the state vector and covariance.         *)

\* A double that is finite: (-1)^neg * dig * 2^two * 5^five, dig being the
\* decimal digits of a number that neither 2 nor 5 divides, the most
\* significant first, and << >> for zero.  Equal values have equal records.
\* The value is exact: the rounding to 53 bits is left out.
Finite(neg, dig, two, five) ==
    [ is |-> "finite", neg |-> neg, dig |-> dig, two |-> two, five |-> five ]

Zero(neg) == Finite(neg, << >>, 0, 0)

Infinity(neg) == [ is |-> "inf", neg |-> neg, dig |-> << >>, two |-> 0,
                   five |-> 0 ]

NaN == [ is |-> "nan", neg |-> FALSE, dig |-> << >>, two |-> 0, five |-> 0 ]

\* the digits of dig * c + carry, for digits dig and small numbers c, carry
RECURSIVE MulAdd(_, _, _)
MulAdd(dig, c, carry) ==
    IF dig = << >>
    THEN IF carry = 0 THEN << >>
         ELSE Append(MulAdd(<< >>, c, carry \div 10), carry % 10)
    ELSE Append(MulAdd(SubSeq(dig, 1, Len(dig) - 1), c,
                       (dig[Len(dig)] * c + carry) \div 10),
                (dig[Len(dig)] * c + carry) % 10)

\* the digits of dig * c \div 10: dig \div 2 for c = 5, dig \div 5 for c = 2
Front(dig) == SubSeq(dig, 1, Len(dig) - 1)

Tenths(dig, c) == Front(MulAdd(dig, c, 0))

\* The record of (-1)^neg * dig * 2^two * 5^five for digits dig that do not
\* begin with 0: the factors 2 and 5 of dig go to the exponents
RECURSIVE Reduced(_, _, _, _)
Reduced(neg, dig, two, five) ==
    IF dig[Len(dig)] % 2 = 0
    THEN Reduced(neg, Tenths(dig, 5), two + 1, five)
    ELSE IF dig[Len(dig)] = 5
         THEN Reduced(neg, Tenths(dig, 2), two, five + 1)
         ELSE Finite(neg, dig, two, five)

\* the i-th digit of the fraction 0.d1d2d3...
FracDigit(d, i) == IF i <= Len(d) THEN d[i] ELSE 0

\* 0.x < 0.y for two sequences of digits
FracLess(x, y) ==
    \E i \in 1 .. Len(y) :
        /\ FracDigit(x, i) < y[i]
        /\ \A j \in 1 .. i - 1 : FracDigit(x, j) = y[j]

\* 0.HugeDigits * 10^309 is 2^1024 - 2^970, half-way between DBL_MAX and
\* 2^1024, all its 309 digits: from there on strtod returns HUGE_VAL
HugeDigits ==
    << 1, 7, 9, 7, 6, 9, 3, 1, 3, 4, 8, 6, 2, 3, 1, 5, 8, 0, 7, 9, 3, 7, 2, 8,
       9, 7, 1, 4, 0, 5, 3, 0, 3, 4, 1, 5, 0, 7, 9, 9, 3, 4, 1, 3, 2, 7, 1, 0,
       0, 3, 7, 8, 2, 6, 9, 3, 6, 1, 7, 3, 7, 7, 8, 9, 8, 0, 4, 4, 4, 9, 6, 8,
       2, 9, 2, 7, 6, 4, 7, 5, 0, 9, 4, 6, 6, 4, 9, 0, 1, 7, 9, 7, 7, 5, 8, 7,
       2, 0, 7, 0, 9, 6, 3, 3, 0, 2, 8, 6, 4, 1, 6, 6, 9, 2, 8, 8, 7, 9, 1, 0,
       9, 4, 6, 5, 5, 5, 5, 4, 7, 8, 5, 1, 9, 4, 0, 4, 0, 2, 6, 3, 0, 6, 5, 7,
       4, 8, 8, 6, 7, 1, 5, 0, 5, 8, 2, 0, 6, 8, 1, 9, 0, 8, 9, 0, 2, 0, 0, 0,
       7, 0, 8, 3, 8, 3, 6, 7, 6, 2, 7, 3, 8, 5, 4, 8, 4, 5, 8, 1, 7, 7, 1, 1,
       5, 3, 1, 7, 6, 4, 4, 7, 5, 7, 3, 0, 2, 7, 0, 0, 6, 9, 8, 5, 5, 5, 7, 1,
       3, 6, 6, 9, 5, 9, 6, 2, 2, 8, 4, 2, 9, 1, 4, 8, 1, 9, 8, 6, 0, 8, 3, 4,
       9, 3, 6, 4, 7, 5, 2, 9, 2, 7, 1, 9, 0, 7, 4, 1, 6, 8, 4, 4, 4, 3, 6, 5,
       5, 1, 0, 7, 0, 4, 3, 4, 2, 7, 1, 1, 5, 5, 9, 6, 9, 9, 5, 0, 8, 0, 9, 3,
       0, 4, 2, 8, 8, 0, 1, 7, 7, 9, 0, 4, 1, 7, 4, 4, 9, 7, 7, 9, 2 >>

\* 0.TinyDigits * 10^(-323) is 2^(-1075), half of the least subnormal double,
\* all its 752 digits (those of 5^1075): up to there strtod returns zero
TinyDigits ==
    << 2, 4, 7, 0, 3, 2, 8, 2, 2, 9, 2, 0, 6, 2, 3, 2, 7, 2, 0, 8, 8, 2, 8, 4,
       3, 9, 6, 4, 3, 4, 1, 1, 0, 6, 8, 6, 1, 8, 2, 5, 2, 9, 9, 0, 1, 3, 0, 7,
       1, 6, 2, 3, 8, 2, 2, 1, 2, 7, 9, 2, 8, 4, 1, 2, 5, 0, 3, 3, 7, 7, 5, 3,
       6, 3, 5, 1, 0, 4, 3, 7, 5, 9, 3, 2, 6, 4, 9, 9, 1, 8, 1, 8, 0, 8, 1, 7,
       9, 9, 6, 1, 8, 9, 8, 9, 8, 2, 8, 2, 3, 4, 7, 7, 2, 2, 8, 5, 8, 8, 6, 5,
       4, 6, 3, 3, 2, 8, 3, 5, 5, 1, 7, 7, 9, 6, 9, 8, 9, 8, 1, 9, 9, 3, 8, 7,
       3, 9, 8, 0, 0, 5, 3, 9, 0, 9, 3, 9, 0, 6, 3, 1, 5, 0, 3, 5, 6, 5, 9, 5,
       1, 5, 5, 7, 0, 2, 2, 6, 3, 9, 2, 2, 9, 0, 8, 5, 8, 3, 9, 2, 4, 4, 9, 1,
       0, 5, 1, 8, 4, 4, 3, 5, 9, 3, 1, 8, 0, 2, 8, 4, 9, 9, 3, 6, 5, 3, 6, 1,
       5, 2, 5, 0, 0, 3, 1, 9, 3, 7, 0, 4, 5, 7, 6, 7, 8, 2, 4, 9, 2, 1, 9, 3,
       6, 5, 6, 2, 3, 6, 6, 9, 8, 6, 3, 6, 5, 8, 4, 8, 0, 7, 5, 7, 0, 0, 1, 5,
       8, 5, 7, 6, 9, 2, 6, 9, 9, 0, 3, 7, 0, 6, 3, 1, 1, 9, 2, 8, 2, 7, 9, 5,
       5, 8, 5, 5, 1, 3, 3, 2, 9, 2, 7, 8, 3, 4, 3, 3, 8, 4, 0, 9, 3, 5, 1, 9,
       7, 8, 0, 1, 5, 5, 3, 1, 2, 4, 6, 5, 9, 7, 2, 6, 3, 5, 7, 9, 5, 7, 4, 6,
       2, 2, 7, 6, 6, 4, 6, 5, 2, 7, 2, 8, 2, 7, 2, 2, 0, 0, 5, 6, 3, 7, 4, 0,
       0, 6, 4, 8, 5, 4, 9, 9, 9, 7, 7, 0, 9, 6, 5, 9, 9, 4, 7, 0, 4, 5, 4, 0,
       2, 0, 8, 2, 8, 1, 6, 6, 2, 2, 6, 2, 3, 7, 8, 5, 7, 3, 9, 3, 4, 5, 0, 7,
       3, 6, 3, 3, 9, 0, 0, 7, 9, 6, 7, 7, 6, 1, 9, 3, 0, 5, 7, 7, 5, 0, 6, 7,
       4, 0, 1, 7, 6, 3, 2, 4, 6, 7, 3, 6, 0, 0, 9, 6, 8, 9, 5, 1, 3, 4, 0, 5,
       3, 5, 5, 3, 7, 4, 5, 8, 5, 1, 6, 6, 6, 1, 1, 3, 4, 2, 2, 3, 7, 6, 6, 6,
       7, 8, 6, 0, 4, 1, 6, 2, 1, 5, 9, 6, 8, 0, 4, 6, 1, 9, 1, 4, 4, 6, 7, 2,
       9, 1, 8, 4, 0, 3, 0, 0, 5, 3, 0, 0, 5, 7, 5, 3, 0, 8, 4, 9, 0, 4, 8, 7,
       6, 5, 3, 9, 1, 7, 1, 1, 3, 8, 6, 5, 9, 1, 6, 4, 6, 2, 3, 9, 5, 2, 4, 9,
       1, 2, 6, 2, 3, 6, 5, 3, 8, 8, 1, 8, 7, 9, 6, 3, 6, 2, 3, 9, 3, 7, 3, 2,
       8, 0, 4, 2, 3, 8, 9, 1, 0, 1, 8, 6, 7, 2, 3, 4, 8, 4, 9, 7, 6, 6, 8, 2,
       3, 5, 0, 8, 9, 8, 6, 3, 3, 8, 8, 5, 8, 7, 9, 2, 5, 6, 2, 8, 3, 0, 2, 7,
       5, 5, 9, 9, 5, 6, 5, 7, 5, 2, 4, 4, 5, 5, 5, 0, 7, 2, 5, 5, 1, 8, 9, 3,
       1, 3, 6, 9, 0, 8, 3, 6, 2, 5, 4, 7, 7, 9, 1, 8, 6, 9, 4, 8, 6, 6, 7, 9,
       9, 4, 9, 6, 8, 3, 2, 4, 0, 4, 9, 7, 0, 5, 8, 2, 1, 0, 2, 8, 5, 1, 3, 1,
       8, 5, 4, 5, 1, 3, 9, 6, 2, 1, 3, 8, 3, 7, 7, 2, 2, 8, 2, 6, 1, 4, 5, 4,
       3, 7, 6, 9, 3, 4, 1, 2, 5, 3, 2, 0, 9, 8, 5, 9, 1, 3, 2, 7, 6, 6, 7, 2,
       3, 6, 3, 2, 8, 1, 2, 5 >>

\* how many zeros dig begins with
LeadingZeros(dig) ==
    CHOOSE n \in 0 .. Len(dig) :
        /\ n = Len(dig) \/ dig[n + 1] # 0
        /\ \A i \in 1 .. n : dig[i] = 0

\* how many zeros dig ends with
TrailingZeros(dig) ==
    CHOOSE n \in 0 .. Len(dig) :
        /\ n = Len(dig) \/ dig[Len(dig) - n] # 0
        /\ \A i \in 1 .. n : dig[Len(dig) - i + 1] = 0

\* The double of the magnitude dig * 10^e = 0.dig * 10^x, dig beginning and
\* ending with a digit that is not 0: infinity beyond the range of a double,
\* zero below
Ranged(neg, dig, e, x) ==
    IF x > 309 \/ (x = 309 /\ ~FracLess(dig, HugeDigits)) THEN Infinity(neg)
    ELSE IF x < -323 \/ (x = -323 /\ ~FracLess(TinyDigits, dig))
         THEN Zero(neg)
         ELSE Reduced(neg, dig, e, e)

\* The double nearest to (-1)^neg * dig * 10^e, for any digits dig
Double(neg, dig, e) ==
    IF LeadingZeros(dig) = Len(dig) THEN Zero(neg)
    ELSE Ranged(neg,
                SubSeq(dig, LeadingZeros(dig) + 1,
                       Len(dig) - TrailingZeros(dig)),
                e + TrailingZeros(dig), Len(dig) - LeadingZeros(dig) + e)

NoFilter ==
    [ kind |-> "none", verbose |-> FALSE, use_laser |-> FALSE,
      use_radar |-> FALSE, std_a |-> Zero(FALSE),
      std_yawdd |-> Zero(FALSE),
      is_initialized_ |-> FALSE, time_us_ |-> 0, x_ |-> << >>,
      timestep_ |-> 0, nis_laser_counter_ |-> 0, nis_radar_counter_ |-> 0 ]

\* new UKF(...) / new EKF(...): the constructor's five arguments in order
NewFilter(kind, vb, ul, ur, sa, sy) ==
    [ NoFilter EXCEPT !.kind = kind, !.verbose = vb, !.use_laser = ul,
                      !.use_radar = ur, !.std_a = sa, !.std_yawdd = sy ]

\* A package whose raw values have the dimension of its sensor type
WellFormed(m) ==
    \/ m.sensor_type_ = "LASER" /\ Len(m.raw_measurements_) = 2
    \/ m.sensor_type_ = "RADAR" /\ Len(m.raw_measurements_) = 3

\* The package's sensor modality is switched on in this filter
SensorEnabled(f, m) ==
    \/ m.sensor_type_ = "LASER" /\ f.use_laser
    \/ m.sensor_type_ = "RADAR" /\ f.use_radar

Step(op, m, dt) ==
    [ op |-> op, sensor |-> m.sensor_type_, z |-> m.raw_measurements_,
      dt |-> dt ]

\* Uninitialized -> Running: the state is seeded from the measurement
Initialize(f, m) ==
    [ f EXCEPT !.is_initialized_ = TRUE, !.time_us_ = m.timestamp_,
               !.x_ = << Step("Initialize", m, 0) >> ]

Predict(f, m) ==
    [ f EXCEPT !.x_ = Append(@, Step("Predict", m, m.timestamp_ - f.time_us_)),
               !.time_us_ = m.timestamp_ ]

\* Update and the NIS bookkeeping of section 4.4; nis: this update's NIS
\* exceeds the chi-square 95% value of the sensor
Update(f, m, nis) ==
    [ f EXCEPT !.x_ = Append(@, Step("Update", m, 0)),
               !.timestep_ = @ + 1,
               !.nis_laser_counter_ =
                   IF nis /\ m.sensor_type_ = "LASER" THEN @ + 1 ELSE @,
               !.nis_radar_counter_ =
                   IF nis /\ m.sensor_type_ = "RADAR" THEN @ + 1 ELSE @ ]

\* What the specification leaves open for a measurement of a sensor that is
\* switched off.  first, while Uninitialized: "initialize" (section 4.5, the
\* first measurement of either type) or "ignore" (section 7, the engine
\* stays Uninitialized).  later, once Running (sections 4.5 and 9): "skip",
\* the measurement is consumed and the timestamp advances, or "predict",
\* the filter predicts without updating.
Policy(first, later) == [ first |-> first, later |-> later ]

\* The facade of section 4.5.  A malformed measurement does not mutate the
\* state (section 7); the first measurement initializes instead of
\* predicting and updating; every subsequent call is Predict(dt) then
\* Update(measurement); pol decides for a sensor that is switched off.
ProcessMeasurement(f, m, nis, pol) ==
    IF ~WellFormed(m) THEN f
    ELSE IF ~f.is_initialized_
         THEN IF SensorEnabled(f, m) \/ pol.first = "initialize"
              THEN Initialize(f, m) ELSE f
         ELSE IF SensorEnabled(f, m) THEN Update(Predict(f, m), m, nis)
         ELSE IF pol.later = "skip" THEN [ f EXCEPT !.time_us_ = m.timestamp_ ]
         ELSE Predict(f, m)

\* Tools::CalculateRMSE: a 4-vector over the n pairs accumulated so far
CalculateRMSE(est, gt) == [ size |-> 4, n |-> Len(est) ]

\* A default-constructed VectorXd has no components
EmptyVector == [ size |-> 0, n |-> 0 ]

-----------------------------------------------------------------------------
(* ParseArgs, lines 65-125.  getopt_long hands over one option at a time:  *)
(* << opt, optarg >>, opt being the character it returns ("?" for an       *)
(* option it does not know).  optarg is the sequence of its characters for *)
(* the options converted with stoi and atof, and a string for the three    *)
(* that are copied.                                                        *)

DefaultIn  == "../data/obj_pose-laser-radar-synthetic-input.txt"
DefaultOut == "../data/obj_pose-fused-output.txt"

\* INT_MAX of <climits>: std::stoi throws std::out_of_range beyond it
INT_MAX == 2147483647

Digits == { "0", "1", "2", "3", "4", "5", "6", "7", "8", "9" }

DigitValue(c) ==
    CASE c = "0" -> 0 [] c = "1" -> 1 [] c = "2" -> 2 [] c = "3" -> 3
      [] c = "4" -> 4 [] c = "5" -> 5 [] c = "6" -> 6 [] c = "7" -> 7
      [] c = "8" -> 8 [] c = "9" -> 9

\* isspace in the "C" locale; "\\v" stands for the vertical tab, for which
\* a TLA+ string has no escape
Spaces == { " ", "\t", "\n", "\\v", "\f", "\r" }

\* tolower, for the letters strtod looks at
Lower(c) ==
    CASE c = "A" -> "a" [] c = "B" -> "b" [] c = "C" -> "c" [] c = "D" -> "d"
      [] c = "E" -> "e" [] c = "F" -> "f" [] c = "I" -> "i" [] c = "N" -> "n"
      [] c = "P" -> "p" [] c = "T" -> "t" [] c = "X" -> "x" [] c = "Y" -> "y"
      [] OTHER -> c

HexDigits == Digits \cup { "a", "b", "c", "d", "e", "f" }

HexValue(c) ==
    CASE c = "a" -> 10 [] c = "b" -> 11 [] c = "c" -> 12 [] c = "d" -> 13
      [] c = "e" -> 14 [] c = "f" -> 15 [] OTHER -> DigitValue(c)

\* strtol and strtod skip leading white space: the first position at or
\* after i that holds none
SkipSpace(a, i) ==
    CHOOSE j \in i .. Len(a) + 1 :
        /\ j > Len(a) \/ a[j] \notin Spaces
        /\ \A k \in i .. j - 1 : a[k] \in Spaces

\* a sign stands at position i
SignAt(a, i) == i <= Len(a) /\ a[i] \in { "+", "-" }

MinusAt(a, i) == i <= Len(a) /\ a[i] = "-"

\* the letters of word stand at position i, in either case
WordAt(a, i, word) ==
    /\ i + Len(word) - 1 <= Len(a)
    /\ \A k \in 1 .. Len(word) : Lower(a[i + k - 1]) = word[k]

\* The run of digits that begins at position i, read as an int.  n is minus
\* the magnitude read so far and top the largest last digit that fits (7,
\* or 8 after a minus sign): [end, val, range], range FALSE when the number
\* does not fit an int
RECURSIVE ScanInt(_, _, _, _)
ScanInt(a, i, n, top) ==
    IF i <= Len(a) /\ a[i] \in Digits
    THEN IF \/ n < 0 - (INT_MAX \div 10)
            \/ n = 0 - (INT_MAX \div 10) /\ DigitValue(a[i]) > top
         THEN [ end |-> i, val |-> n, range |-> FALSE ]
         ELSE ScanInt(a, i + 1, 10 * n - DigitValue(a[i]), top)
    ELSE [ end |-> i, val |-> n, range |-> TRUE ]

\* std::stoi: the integer the string begins with, whatever follows it.  It
\* throws std::invalid_argument when the string begins with none and
\* std::out_of_range when the integer does not fit an int.
stoi(a) ==
    LET p == SkipSpace(a, 1)
        q == IF SignAt(a, p) THEN p + 1 ELSE p
        d == ScanInt(a, q, 0, IF MinusAt(a, p) THEN (INT_MAX % 10) + 1
                                               ELSE INT_MAX % 10)
    IN  IF ~d.range
        THEN [ ok |-> FALSE, val |-> 0, what |-> "out_of_range" ]
        ELSE IF d.end = q
        THEN [ ok |-> FALSE, val |-> 0, what |-> "invalid_argument" ]
        ELSE [ ok |-> TRUE, val |-> IF MinusAt(a, p) THEN d.val ELSE 0 - d.val,
               what |-> "" ]

\* the position after the run of decimal digits that begins at position i
ScanDigits(a, i) ==
    CHOOSE j \in i .. Len(a) + 1 :
        /\ j > Len(a) \/ a[j] \notin Digits
        /\ \A k \in i .. j - 1 : a[k] \in Digits

\* the same for hexadecimal digits
ScanHex(a, i) ==
    CHOOSE j \in i .. Len(a) + 1 :
        /\ j > Len(a) \/ Lower(a[j]) \notin HexDigits
        /\ \A k \in i .. j - 1 : Lower(a[k]) \in HexDigits

\* the values of the digits at the positions i .. j - 1
DigitsAt(a, i, j) == [ k \in 1 .. j - i |-> HexValue(Lower(a[i + k - 1])) ]

\* the decimal digits of the number whose hexadecimal digits are hex, after
\* the digits that gave dig
RECURSIVE FromHex(_, _, _)
FromHex(hex, i, dig) ==
    IF i > Len(hex) THEN dig ELSE FromHex(hex, i + 1, MulAdd(dig, 16, hex[i]))

\* the number of the decimal digits at i .. j - 1, after those that gave acc
RECURSIVE ScanExp(_, _, _, _)
ScanExp(a, i, j, acc) ==
    IF i >= j THEN acc ELSE ScanExp(a, i + 1, j, 10 * acc + DigitValue(a[i]))

\* The magnitude of the exponent whose digits, after z zeros, stand at
\* i .. j - 1: the number as written when it has up to nine digits and 10^9
\* when it has more.  An argument is shorter than 2^17 characters
\* (MAX_ARG_STRLEN), so an exponent of ten digits or more takes every number
\* but zero out of the range of a double, as 10^9 does.
ExpMagnitude(a, i, j, z) ==
    IF j - i - z > 9 THEN 1000000000 ELSE ScanExp(a, i + z, j, 0)

\* the magnitude of the exponent whose digits begin at position i
ExpAt(a, i) ==
    ExpMagnitude(a, i, ScanDigits(a, i),
                 LeadingZeros(DigitsAt(a, i, ScanDigits(a, i))))

\* The exponent that begins at position i with the letter mark (e for a
\* decimal number, p for a hexadecimal one): a sign and digits, or 0 when no
\* digit follows
Exponent(a, i, mark) ==
    IF i <= Len(a) /\ Lower(a[i]) = mark
    THEN IF MinusAt(a, i + 1) THEN 0 - ExpAt(a, i + 2)
         ELSE IF SignAt(a, i + 1) THEN ExpAt(a, i + 2)
              ELSE ExpAt(a, i + 1)
    ELSE 0

\* The decimal number at position q, whose integer digits end before
\* position d and whose digits end before position f: digits, point, digits,
\* exponent.  0.0 when there is no digit.
DecimalAt(a, q, d, f, neg) ==
    IF f = q \/ (f = q + 1 /\ d = q) THEN Zero(FALSE)
    ELSE IF f = d
         THEN Double(neg, DigitsAt(a, q, d), Exponent(a, f, "e"))
         ELSE Double(neg, DigitsAt(a, q, d) \o DigitsAt(a, d + 1, f),
                     Exponent(a, f, "e") - (f - d - 1))

\* the position after the digits of the number at q whose integer digits
\* end before position d: after the fraction if a point stands at d
FractionEnd(a, d, hex) ==
    IF d <= Len(a) /\ a[d] = "."
    THEN IF hex THEN ScanHex(a, d + 1) ELSE ScanDigits(a, d + 1)
    ELSE d

AtofDecimal(a, q, neg) ==
    DecimalAt(a, q, ScanDigits(a, q), FractionEnd(a, ScanDigits(a, q), FALSE),
              neg)

\* how many bits the number of the hexadecimal digits hex has, hex beginning
\* with a digit that is not 0
BitLength(hex) ==
    4 * (Len(hex) - 1)
      + (IF hex[1] >= 8 THEN 4 ELSE IF hex[1] >= 4 THEN 3
         ELSE IF hex[1] >= 2 THEN 2 ELSE 1)

\* the i-th of these bits, the most significant first
Bit(hex, i) ==
    LET j == 4 * Len(hex) - BitLength(hex) + i - 1
    IN  (hex[(j \div 4) + 1] \div (IF j % 4 = 0 THEN 8 ELSE IF j % 4 = 1 THEN 4
                                   ELSE IF j % 4 = 2 THEN 2 ELSE 1)) % 2

\* The double of the magnitude hex * 2^k, hex beginning and ending with a
\* digit that is not 0 and the magnitude lying in [2^(x - 1), 2^x).  From
\* 2^1024 - 2^970 on (54 leading ones below 2^1024) strtod returns HUGE_VAL,
\* and up to 2^(-1075) it returns zero.
BinaryRanged(neg, hex, k, x) ==
    IF \/ x > 1024
       \/ x = 1024 /\ BitLength(hex) >= 54 /\ \A i \in 1 .. 54 : Bit(hex, i) = 1
    THEN Infinity(neg)
    ELSE IF \/ x < -1074
            \/ x = -1074 /\ \A i \in 2 .. BitLength(hex) : Bit(hex, i) = 0
         THEN Zero(neg)
         ELSE Reduced(neg, FromHex(hex, 1, << >>), k, 0)

\* The double of the hexadecimal digits hex times 2^k, for any digits hex
Binary(neg, hex, k) ==
    IF LeadingZeros(hex) = Len(hex) THEN Zero(neg)
    ELSE BinaryRanged(neg,
                      SubSeq(hex, LeadingZeros(hex) + 1,
                             Len(hex) - TrailingZeros(hex)),
                      k + 4 * TrailingZeros(hex),
                      BitLength(SubSeq(hex, LeadingZeros(hex) + 1, Len(hex)))
                        + k)

\* The hexadecimal number whose digits begin at position h, after "0x"; the
\* "0" alone when no hexadecimal digit follows
HexAt(a, h, d, f, neg) ==
    IF f = h \/ (f = h + 1 /\ d = h) THEN Zero(neg)
    ELSE IF f = d
         THEN Binary(neg, DigitsAt(a, h, d), Exponent(a, f, "p"))
         ELSE Binary(neg, DigitsAt(a, h, d) \o DigitsAt(a, d + 1, f),
                     Exponent(a, f, "p") - 4 * (f - d - 1))

AtofHex(a, h, neg) ==
    HexAt(a, h, ScanHex(a, h), FractionEnd(a, ScanHex(a, h), TRUE), neg)

\* atof (strtod): the number the string begins with, whatever follows it:
\* "inf" or "infinity", "nan", a hexadecimal number after "0x", or a decimal
\* number; 0.0 when it begins with none
atof(a) ==
    LET p   == SkipSpace(a, 1)
        q   == IF SignAt(a, p) THEN p + 1 ELSE p
        neg == MinusAt(a, p)
    IN  IF WordAt(a, q, << "i", "n", "f" >>) THEN Infinity(neg)
        ELSE IF WordAt(a, q, << "n", "a", "n" >>) THEN NaN
        ELSE IF WordAt(a, q, << "0", "x" >>) THEN AtofHex(a, q + 2, neg)
        ELSE AtofDecimal(a, q, neg)

\* The globals of lines 18-29 with their initial values
Defaults ==
    [ verbose |-> FALSE, use_laser |-> TRUE, use_radar |-> TRUE,
      use_simulator |-> TRUE, inputDataFile |-> DefaultIn,
      outputDataFile |-> DefaultOut, filter_choice |-> "ukf",
      std_a |-> Double(FALSE, << 6 >>, -1),
      std_yawdd |-> Double(FALSE, << 4 >>, -1) ]

\* One turn of the switch of lines 90-123: [g, status]
ParseOpt(g, o) ==
    LET flag(field) == LET n == stoi(o[2]) IN
                       IF n.ok
                       THEN [ g |-> [ g EXCEPT ![field] = (n.val > 0) ],
                              status |-> "ok" ]
                       ELSE [ g |-> g, status |-> "throw" ]
    IN  CASE o[1] = "v" -> flag("verbose")
          [] o[1] = "l" -> flag("use_laser")
          [] o[1] = "r" -> flag("use_radar")
          [] o[1] = "s" -> flag("use_simulator")
          [] o[1] = "a" -> [ g |-> [ g EXCEPT !.std_a = atof(o[2]) ],
                              status |-> "ok" ]
          [] o[1] = "y" -> [ g |-> [ g EXCEPT !.std_yawdd = atof(o[2]) ],
                              status |-> "ok" ]
          [] o[1] = "i" -> [ g |-> [ g EXCEPT !.inputDataFile = o[2] ],
                              status |-> "ok" ]
          [] o[1] = "o" -> [ g |-> [ g EXCEPT !.outputDataFile = o[2] ],
                              status |-> "ok" ]
          [] o[1] = "f" -> [ g |-> [ g EXCEPT !.filter_choice = o[2] ],
                              status |-> "ok" ]
          [] OTHER -> [ g |-> g, status |-> "help" ]

\* The loop of lines 83-124 over the options left
RECURSIVE ParseArgs(_, _)
ParseArgs(g, opts) ==
    IF opts = << >> THEN [ g |-> g, status |-> "ok" ]
    ELSE LET r == ParseOpt(g, Head(opts))
         IN  IF r.status = "ok" THEN ParseArgs(r.g, Tail(opts)) ELSE r

\* One option as getopt_long returns it: << opt, optarg >>
Opt(o, a) == << o, a >>

\* The command lines of the model
Argvs ==
    { << >>,
      << Opt("s", << "0" >>) >>,
      << Opt("s", << "0", ".", "9" >>), Opt("f", "ukf"), Opt("f", "kf"),
         Opt("l", << "-", "1" >>), Opt("v", << "3" >>), Opt("a", << "3" >>),
         Opt("y", << "0", ".", "2", "5" >>), Opt("i", "data.txt"),
         Opt("o", "out.txt") >>,
      << Opt("f", "ukf"), Opt("f", "ekf"), Opt("r", << "0" >>),
         Opt("s", << "0" >>) >>,
      << Opt("f", "ekf"), Opt("f", "ukf"), Opt("r", << "0" >>),
         Opt("i", "missing.txt") >>,
      << Opt("a", << "1", "e", "4", "0", "0" >>),
         Opt("y", << "-", "1", "e", "-", "4", "0", "0" >>),
         Opt("i", "missing.txt") >>,
      << Opt("a", << "0", "x", "1", "p", "1", "0", "2", "4" >>),
         Opt("y", << "0", "x", "1", ".", "8", "p", "-", "1", "0", "7", "5" >>),
         Opt("i", "missing.txt") >>,
      << Opt("a", << "1", ".", "7", "9", "7", "6", "9", "3", "1", "3", "4", "8",
                      "6", "2", "3", "1", "5", "8", "0", "7", "9", "4", "e", "3",
                      "0", "8" >>),
         Opt("y", << "-", "2", "4", "7", "0", "3", "2", "8", "2", "2", "9", "2",
                      "0", "6", "2", "3", "2", "7", "2", "0", "1", "e", "-", "3",
                      "4", "3" >>),
         Opt("i", "missing.txt") >>,
      << Opt("a", << "1", "0", "0", "e", "-", "1", "0", "0", "0", "0", "0" >>),
         Opt("y", << "0", "x", "0", ".", "0", "1", "p", "1", "2", "0", "0", "0",
                      "4" >>),
         Opt("i", "missing.txt") >>,
      << Opt("s", << "0" >>), Opt("o", "/nodir/out.txt") >>,
      << Opt("o", "/nodir/out.txt") >>,
      << Opt("l", << "0" >>), Opt("h", << >>) >>,
      << Opt("?", << >>) >>,
      << Opt("v", << "1", "a", "b", "c" >>), Opt("a", << "a", "b", "c" >>),
         Opt("y", << "1", "e", "1" >>), Opt("i", "missing.txt") >>,
      << Opt("v", << "\t", "1" >>), Opt("a", << "0", "x", "1", "p", "-", "1" >>),
         Opt("y", << "i", "n", "f" >>), Opt("i", "missing.txt") >>,
      << Opt("v", << "y", "e", "s" >>) >>,
      << Opt("r", << "2", "1", "4", "7", "4", "8", "3", "6", "4", "8" >>) >> }

\* The file systems of the model: the input files are there or they are not
FileSystems == { { DefaultIn, "data.txt" }, { } }

\* The paths an ofstream can create or truncate
Writable == { DefaultOut, "out.txt" }

-----------------------------------------------------------------------------
(* Values written by the driver.                                           *)

\* lines 233-240 and 320-327: (p_x, p_y, cos(yaw)*v, sin(yaw)*v) of x_
Estimate(x) == [ of |-> x ]

\* ground_truth_.head(4)
Head4(v) == SubSeq(v, 1, 4)

Row(kind, x, gt, rmse) == [ kind |-> kind, x |-> x, gt |-> gt, rmse |-> rmse ]

HeaderRow == Row("header", << >>, << >>, EmptyVector)

Reply(event, x, rmse) == [ event |-> event, x |-> x, rmse |-> rmse ]

NoMessage ==
    [ handled |-> FALSE, data |-> << >>, str |-> << >>, replies |-> << >>,
      ncalls |-> 0 ]

\* 100.0 * counter / timestep_ in floating point: 0/0 is NaN, a positive
\* counter over 0 is +inf; otherwise val is the integer part of the quotient
Percent(counter, total) ==
    IF total = 0
    THEN [ is |-> IF counter = 0 THEN "nan" ELSE "inf", val |-> 0 ]
    ELSE [ is |-> "finite", val |-> (100 * counter) \div total ]

NoReport ==
    [ printed |-> FALSE, nis_laser |-> Percent(0, 1), nis_radar |-> Percent(0, 1),
      rmse |-> EmptyVector ]

-----------------------------------------------------------------------------
(* Inputs of a run.                                                        *)

\* A line the format of the input allows: tag L with 2 + 1 + 6 numbers, or
\* tag R with 3 + 1 + 6 numbers
WellFormedLine(line) ==
    /\ line # << >>
    /\ \/ Head(line) = "L" /\ Len(line) = 10
       \/ Head(line) = "R" /\ Len(line) = 11
    /\ \A i \in 2 .. Len(line) : line[i] \in NumTokens

\* A websocket message: its characters, "T" standing for the text
\* "telemetry",{"sensor_measurement":"<sm>"} and "E" for the text "steer",{}
Msg(data, sm) == [ data |-> data, sm |-> sm ]

Width(c) == IF c = "T" THEN 9 ELSE IF c = "E" THEN 5 ELSE 1

\* the length in characters of a message
RECURSIVE StrLen(_)
StrLen(d) == IF d = << >> THEN 0 ELSE Width(Head(d)) + StrLen(Tail(d))

Messages ==
    { Msg(<< "4", "2", "[", "T", "]" >>, l) : l \in Lines } \cup
    { Msg(<< "4", "2", "[", "T" >>, LineL) } \cup
    { Msg(d, << >>) : d \in
        { << "4", "2", "[", "E", "]" >>,
          << "4", "2" >>,
          << "4", "2", "[", "n", "u", "l", "l", "]" >>,
          << "4", "3", "[", "T", "]" >>,
          << "4", "2", "]", "x", "[" >>,
          << "4", "2", "]", "[" >>,
          << >> } }

\* A message and what follows it in the receive buffer: std::string(data)
\* reads up to the first NUL, not up to length.  The bytes after the message
\* are none, or a "]" after the two messages whose handling it changes.
Buffers ==
    { << m, << >> >> : m \in Messages } \cup
    { << m, << "]" >> >> : m \in
        { Msg(<< "4", "2", "[", "T" >>, LineL),
          Msg(<< "4", "2", "]", "[" >>, << >>) } }

\* json::parse(s), j[0].get<std::string>() and j[1]["sensor_measurement"]:
\* the event name, or ok = FALSE when one of them throws
JsonParse(s) ==
    IF s = << "[", "T", "]" >> THEN [ ok |-> TRUE, event |-> "telemetry" ]
    ELSE IF s = << "[", "E", "]" >> THEN [ ok |-> TRUE, event |-> "steer" ]
    ELSE [ ok |-> FALSE, event |-> "" ]

-----------------------------------------------------------------------------
(* main, lines 171-351.                                                    *)

Globals ==
    [ verbose |-> verbose, use_laser |-> use_laser, use_radar |-> use_radar,
      use_simulator |-> use_simulator, inputDataFile |-> inputDataFile,
      outputDataFile |-> outputDataFile, filter_choice |-> filter_choice,
      std_a |-> std_a, std_yawdd |-> std_yawdd ]

SetGlobals(g) ==
    /\ verbose' = g.verbose
    /\ use_laser' = g.use_laser
    /\ use_radar' = g.use_radar
    /\ use_simulator' = g.use_simulator
    /\ inputDataFile' = g.inputDataFile
    /\ outputDataFile' = g.outputDataFile
    /\ filter_choice' = g.filter_choice
    /\ std_a' = g.std_a
    /\ std_yawdd' = g.std_yawdd

globalVars == << verbose, use_laser, use_radar, use_simulator, inputDataFile,
                 outputDataFile, filter_choice, std_a, std_yawdd >>

envVars == << argv, fsInput, policy, fin, fout >>

InitMain ==
    /\ verbose = Defaults.verbose
    /\ use_laser = Defaults.use_laser
    /\ use_radar = Defaults.use_radar
    /\ use_simulator = Defaults.use_simulator
    /\ inputDataFile = Defaults.inputDataFile
    /\ outputDataFile = Defaults.outputDataFile
    /\ filter_choice = Defaults.filter_choice
    /\ std_a = Defaults.std_a
    /\ std_yawdd = Defaults.std_yawdd
    /\ filter = NoFilter
    /\ heap = [ created |-> 0, deleted |-> 0 ]
    /\ estimations = << >>
    /\ ground_truth = << >>
    /\ RMSE = EmptyVector
    /\ in_file = [ open |-> FALSE, read |-> 0 ]
    /\ out_file = [ open |-> FALSE, rows |-> << >> ]
    /\ outTruncated = FALSE
    /\ calls = << >>
    /\ accepted = << >>
    /\ ws_sent = << >>
    /\ last = NoMessage
    /\ steps = 0
    /\ report = NoReport


\* The policy acts only on a measurement of a sensor that is switched off:
\* every policy for a command line that switches one off, one otherwise
Policies(g) ==
    IF g.use_laser /\ g.use_radar THEN { Policy("ignore", "skip") }
    ELSE { Policy(first, later) : first \in { "initialize", "ignore" },
                                  later \in { "skip", "predict" } }

Init ==
    /\ pc = "start"
    /\ argv \in Argvs
    /\ fsInput \in FileSystems
    /\ policy \in Policies(ParseArgs(Defaults, argv).g)
    /\ fin = << >>
    /\ fout = << >>
    /\ memory = ZeroMemory
    /\ InitMain

\* line 174 (ParseArgs) and the printing of lines 176-179
ParseArgsStep ==
    /\ pc = "start"
    /\ \E r \in { ParseArgs(Globals, argv) } :
           /\ SetGlobals(r.g)
           /\ pc' = CASE r.status = "ok" -> "construct"
                      [] r.status = "help" -> "exit_1"
                      [] OTHER -> "aborted"
    /\ UNCHANGED << envVars, filter, heap, estimations, ground_truth, RMSE,
                    in_file, out_file, outTruncated, calls, accepted,
                    ws_sent, last, steps, report,
                    memory >>

\* Mutant of FilterKind: the two branches of lines 184-188 exchanged
FilterKind_Swapped(choice) == IF choice = "ukf" THEN "EKF" ELSE "UKF"

\* lines 184-188: which class is instantiated for a filter_choice
FilterKind(choice) == IF choice = "ukf" THEN "UKF" ELSE "EKF"

\* lines 185/187: the object constructed from the globals
ConstructFilter(g) ==
    NewFilter(FilterKind(g.filter_choice), g.verbose, g.use_laser,
              g.use_radar, g.std_a, g.std_yawdd)

\* lines 181-194
Construct ==
    /\ pc = "construct"
    /\ filter' = ConstructFilter(Globals)
    /\ heap' = [ heap EXCEPT !.created = @ + 1 ]
    /\ estimations' = << >>
    /\ ground_truth' = << >>
    /\ RMSE' = EmptyVector
    /\ pc' = "open"
    /\ UNCHANGED << envVars, globalVars, in_file, out_file, outTruncated,
                    calls, accepted, ws_sent, last, steps, report,
                    memory >>

\* lines 198-205: where main goes once both streams are constructed
AfterOpen(inOpen, outOpen) ==
    IF ~inOpen THEN "exit_failure"
    ELSE IF ~outOpen THEN "exit_failure"
    ELSE "mode"

\* lines 195-205: both streams are constructed, then checked
OpenFiles ==
    /\ pc = "open"
    /\ LET inOpen  == inputDataFile \in fsInput
           outOpen == outputDataFile \in Writable
       IN  /\ in_file' = [ open |-> inOpen, read |-> 0 ]
           /\ out_file' = [ open |-> outOpen, rows |-> << >> ]
           /\ outTruncated' = outOpen
           /\ pc' = AfterOpen(inOpen, outOpen)
    /\ UNCHANGED << envVars, globalVars, filter, heap, estimations,
                    ground_truth, RMSE, calls, accepted, ws_sent, last,
                    steps, report,
                    memory >>

\* lines 208-298: the handlers are registered and the hub listens; listening
\* fails (return -1) or the event loop starts
StartSimulator(listening) ==
    /\ pc = "mode"
    /\ use_simulator
    /\ pc' = IF listening THEN "run" ELSE "exit_m1"
    /\ UNCHANGED << envVars, globalVars, filter, heap, estimations,
                    ground_truth, RMSE, in_file, out_file, outTruncated,
                    calls, accepted, ws_sent, last, steps, report,
                    memory >>

\* lines 300-310: the header row
StartFileMode ==
    /\ pc = "mode"
    /\ ~use_simulator
    /\ out_file' = [ out_file EXCEPT !.rows = Append(@, HeaderRow) ]
    /\ pc' = "loop"
    /\ UNCHANGED << envVars, globalVars, filter, heap, estimations,
                    ground_truth, RMSE, in_file, outTruncated, calls,
                    accepted, ws_sent, last, steps, report,
                    memory >>

\* Mutant of Process: the estimate is taken before the filter is called
Process_EstimateBeforeCall(m, nis) ==
    LET f  == ProcessMeasurement(filter, m, nis, policy)
        e2 == Append(estimations, Estimate(filter.x_))
        g2 == Append(ground_truth, Head4(m.ground_truth_))
    IN  [ m |-> m, f |-> f, est |-> e2, gt |-> g2,
          rmse |-> CalculateRMSE(e2, g2) ]

\* lines 230-244 and 315-330: the package m of one line through the filter.
\* [m, f, est, gt, rmse]: the package, the filter after the call, and the
\* vectors appended and computed
Process(m, nis) ==
    LET f  == ProcessMeasurement(filter, m, nis, policy)
        e2 == Append(estimations, Estimate(f.x_))
        g2 == Append(ground_truth, Head4(m.ground_truth_))
    IN  [ m |-> m, f |-> f, est |-> e2, gt |-> g2,
          rmse |-> CalculateRMSE(e2, g2) ]

\* Mutant of Is42: the test of the length accepts a message of 2 characters
Is42_LengthOffByOne(data) ==
    StrLen(data) >= 2 /\ data[1] = "4" /\ data[2] = "2"

\* line 216
Is42(data) == StrLen(data) > 2 /\ data[1] = "4" /\ data[2] = "2"

\* lines 216-261: what the handler does with a message.  [act, s, str]:
\* "none", "manual", "throw", "telemetry" or "event"
Handle(data, tail) ==
    IF ~Is42(data) THEN [ act |-> "none", str |-> << >>, s |-> << >> ]
    ELSE LET str == data \o tail
             s   == hasData(str)
             j   == JsonParse(s)
         IN  IF s = << >> THEN [ act |-> "manual", str |-> str, s |-> s ]
             ELSE IF ~j.ok THEN [ act |-> "throw", str |-> str, s |-> s ]
             ELSE IF j.event = "telemetry"
                  THEN [ act |-> "telemetry", str |-> str, s |-> s ]
                  ELSE [ act |-> "event", str |-> str, s |-> s ]

ManualReply == Reply("manual", << >>, EmptyVector)

\* lines 211-262: the onMessage handler
OnMessage(msg, tail, mem, nis) ==
    /\ pc = "run"
    /\ steps < MaxSteps
    /\ steps' = steps + 1
    /\ \E h \in { Handle(msg.data, tail) },
          p \in { Process(getMeasurement(msg.sm, mem), nis) } :
       \E r \in { Reply("estimate_marker", p.f.x_, p.rmse) } :
           IF h.act = "telemetry"
           THEN /\ filter' = p.f
                /\ estimations' = p.est
                /\ ground_truth' = p.gt
                /\ calls' = Append(calls, [ meas |-> p.m, x_after |-> p.f.x_,
                                            mem |-> mem ])
                /\ accepted' = Append(accepted, msg.sm)
                /\ memory' = Left(msg.sm, mem)
                /\ ws_sent' = Append(ws_sent, r)
                /\ last' = [ handled |-> TRUE, data |-> msg.data,
                             str |-> h.str, replies |-> << r >>,
                             ncalls |-> 1 ]
                /\ pc' = pc
           ELSE /\ UNCHANGED << filter, estimations, ground_truth, calls,
                                accepted, memory >>
                /\ ws_sent' = IF h.act = "manual"
                              THEN Append(ws_sent, ManualReply) ELSE ws_sent
                /\ last' = [ handled |-> TRUE, data |-> msg.data,
                             str |-> h.str,
                             replies |-> IF h.act = "manual"
                                         THEN << ManualReply >> ELSE << >>,
                             ncalls |-> 0 ]
                /\ pc' = IF h.act = "throw" THEN "aborted" ELSE pc
    /\ UNCHANGED << envVars, globalVars, heap, RMSE, in_file, out_file,
                    outTruncated, report >>

\* The memories getMeasurement can begin with in the handling of a message;
\* a message that is no telemetry event does not call it
HandlerEntry(msg, tail) ==
    IF Handle(msg.data, tail).act = "telemetry" THEN Entry(msg.sm, memory)
    ELSE { memory }

\* line 298: h.run() returns
RunReturns ==
    /\ pc = "run"
    /\ pc' = "report"
    /\ UNCHANGED << envVars, globalVars, filter, heap, estimations,
                    ground_truth, RMSE, in_file, out_file, outTruncated,
                    calls, accepted, ws_sent, last, steps, report,
                    memory >>

\* lines 312-333: getline yields a line, which goes through the filter
ReadLine(line, mem, nis) ==
    /\ pc = "loop"
    /\ steps < MaxSteps
    /\ steps' = steps + 1
    /\ \E p \in { Process(getMeasurement(line, mem), nis) } :
           /\ filter' = p.f
           /\ estimations' = p.est
           /\ ground_truth' = p.gt
           /\ RMSE' = p.rmse
           /\ calls' = Append(calls, [ meas |-> p.m, x_after |-> p.f.x_,
                                       mem |-> mem ])
           /\ accepted' = Append(accepted, line)
           /\ memory' = Left(line, mem)
           /\ out_file' = [ out_file EXCEPT !.rows =
                  Append(@, Row("row", p.f.x_, p.m.ground_truth_, p.rmse)) ]
    /\ in_file' = [ in_file EXCEPT !.read = @ + 1 ]
    /\ UNCHANGED << pc, envVars, globalVars, heap, outTruncated, ws_sent,
                    last, report >>

\* lines 312 and 335-338: getline fails at the end of the file
EndOfFile ==
    /\ pc = "loop"
    /\ in_file' = [ in_file EXCEPT !.open = FALSE ]
    /\ out_file' = [ out_file EXCEPT !.open = FALSE ]
    /\ pc' = "report"
    /\ UNCHANGED << envVars, globalVars, filter, heap, estimations,
                    ground_truth, RMSE, outTruncated, calls, accepted,
                    ws_sent, last, steps, report,
                    memory >>

\* lines 341-350.  RMSE(0) of a vector without components is out of bounds:
\* the read aborts the program (crash) or yields whatever is there
FinalReport(crash) ==
    /\ pc = "report"
    /\ report' = [ printed |-> TRUE,
                   nis_laser |-> Percent(filter.nis_laser_counter_,
                                         filter.timestep_),
                   nis_radar |-> Percent(filter.nis_radar_counter_,
                                         filter.timestep_),
                   rmse |-> RMSE ]
    /\ IF RMSE.size = 0 /\ crash
       THEN pc' = "aborted" /\ heap' = heap
       ELSE pc' = "done" /\ heap' = [ heap EXCEPT !.deleted = @ + 1 ]
    /\ UNCHANGED << envVars, globalVars, filter, estimations, ground_truth,
                    RMSE, in_file, out_file, outTruncated, calls, accepted,
                    ws_sent, last, steps,
                    memory >>

Next ==
    \/ ParseArgsStep
    \/ Construct
    \/ OpenFiles
    \/ \E listening \in BOOLEAN : StartSimulator(listening)
    \/ StartFileMode
    \/ /\ pc = "run" /\ steps < MaxSteps
       /\ \E b \in Buffers : \E mem \in HandlerEntry(b[1], b[2]) :
             \E nis \in BOOLEAN : OnMessage(b[1], b[2], mem, nis)
    \/ RunReturns
    \/ /\ pc = "loop" /\ steps < MaxSteps
       /\ \E line \in Lines : \E mem \in Entry(line, memory) :
             \E nis \in BOOLEAN : ReadLine(line, mem, nis)
    \/ EndOfFile
    \/ \E crash \in BOOLEAN : FinalReport(crash)

Spec == Init /\ [][Next]_vars

-----------------------------------------------------------------------------
(* hasData and getMeasurement applied on their own to bounded inputs.      *)

Chars == { "[", "]", "n", "u", "l", "x" }

InitHasData ==
    /\ pc = "hasData"
    /\ fin \in SeqsUpTo(Chars, MaxStrLen)
    /\ fout = << >>
    /\ argv = << >>
    /\ fsInput = { }
    /\ policy = Policy("ignore", "skip")
    /\ memory = ZeroMemory
    /\ InitMain

ApplyHasData ==
    /\ pc = "hasData"
    /\ fout' = hasData(fin)
    /\ pc' = "hasData_done"
    /\ UNCHANGED << argv, fsInput, policy, fin, globalVars, filter, heap,
                    estimations, ground_truth, RMSE, in_file, out_file,
                    outTruncated, calls, accepted, ws_sent, last, steps,
                    report,
                    memory >>

SpecHasData == InitHasData /\ [][ApplyHasData]_vars

\* What the calls before the one applied may have left behind: nothing, or
\* the values of line L and then line R
Memories == { ZeroMemory, Left(LineR, Left(LineL, ZeroMemory)) }

InitGetMeasurement ==
    /\ pc = "getMeasurement"
    /\ fin \in TokenLines
    /\ fout = << >>
    /\ argv = << >>
    /\ fsInput = { }
    /\ policy = Policy("ignore", "skip")
    /\ InitMain
    /\ memory \in Memories

ApplyGetMeasurement ==
    /\ pc = "getMeasurement"
    /\ \E mem \in Entry(fin, memory) :
           /\ fout' = getMeasurement(fin, mem)
           /\ memory' = Left(fin, mem)
    /\ pc' = "getMeasurement_done"
    /\ UNCHANGED << argv, fsInput, policy, fin, globalVars, filter, heap,
                    estimations, ground_truth, RMSE, in_file, out_file,
                    outTruncated, calls, accepted, ws_sent, last, steps,
                    report >>

SpecGetMeasurement == InitGetMeasurement /\ [][ApplyGetMeasurement]_vars

-----------------------------------------------------------------------------
(* Properties.                                                             *)

IsMarker(r) == r.event = "estimate_marker"
IsManual(r) == r.event = "manual"
IsDataRow(r) == r.kind = "row"

Markers == SelectSeq(ws_sent, IsMarker)
DataRows == SelectSeq(out_file.rows, IsDataRow)

\* C1: measurements are processed one at a time and in arrival order.  After
\* k accepted measurements there have been exactly k calls of
\* ProcessMeasurement, estimations and ground_truth hold k entries, file mode
\* has written k rows and simulator mode has sent k estimate_marker replies;
\* the i-th call got the package of the i-th line, the i-th ground truth is
\* the first four ground-truth fields of that package, and the i-th
\* estimate, row and reply are taken from the filter as the i-th call left it.
C1_OneAtATimeInOrder ==
    LET k == Len(accepted)
    IN  /\ Len(calls) = k
        /\ Len(estimations) = k
        /\ Len(ground_truth) = k
        /\ Len(Markers) + Len(DataRows) = k
        /\ use_simulator => Len(DataRows) = 0
        /\ ~use_simulator => Len(Markers) = 0 /\ in_file.read = k
        /\ \A i \in 1 .. k :
              /\ calls[i].meas = getMeasurement(accepted[i], calls[i].mem)
              /\ ground_truth[i] = Head4(calls[i].meas.ground_truth_)
              /\ estimations[i] = Estimate(calls[i].x_after)
              /\ use_simulator => Markers[i].x = calls[i].x_after
              /\ ~use_simulator =>
                    /\ DataRows[i].x = calls[i].x_after
                    /\ DataRows[i].gt = calls[i].meas.ground_truth_
                    /\ DataRows[i].rmse.n = i

\* Two different measurements went through file mode, in their order
C1_Witness ==
    /\ ~use_simulator
    /\ accepted = << LineL, LineR >>
    /\ Len(DataRows) = 2
    /\ Len(filter.x_) = 3

\* C2: a malformed line (unknown sensor tag, or fields that do not match the
\* tag) is never handed to ProcessMeasurement.
C2_MalformedNotProcessed ==
    \A i \in 1 .. Len(calls) : WellFormedLine(accepted[i])

\* C3, for the runs in which both sensors are switched on: one filter object
\* is created before the first call and destroyed after the last, its state
\* is what the calls left, the first call initializes it from its
\* measurement instead of predicting and updating, and every later call
\* appends Predict and then Update with its measurement, the state so far
\* being kept.
C3_InitializeThenPredictUpdate ==
    (use_laser /\ use_radar) =>
        /\ heap.created <= 1
        /\ heap.deleted <= heap.created
        /\ Len(calls) > 0 => heap.created = 1
        /\ heap.deleted = 1 => pc = "done"
        /\ filter.is_initialized_ <=> filter.x_ # << >>
        /\ filter.x_ = IF calls = << >> THEN << >>
                       ELSE calls[Len(calls)].x_after
        /\ \A i \in 1 .. Len(calls) :
              LET before == IF i = 1 THEN << >> ELSE calls[i - 1].x_after
                  after  == calls[i].x_after
                  m      == calls[i].meas
              IN  IF i = 1
                  THEN /\ Len(after) = 1
                       /\ after[1].op = "Initialize"
                       /\ after[1].z = m.raw_measurements_
                  ELSE /\ Len(after) = Len(before) + 2
                       /\ SubSeq(after, 1, Len(before)) = before
                       /\ after[Len(before) + 1].op = "Predict"
                       /\ after[Len(before) + 2].op = "Update"
                       /\ after[Len(before) + 2].z = m.raw_measurements_

\* C4: every package getMeasurement returns has a sensor type, raw values of
\* that type's dimension and, as its timestamp, the number in the field of
\* the line that follows the raw values.
C4_PackageConsistent ==
    pc = "getMeasurement_done" =>
        /\ fout.sensor_type_ \in { "LASER", "RADAR" }
        /\ fout.sensor_type_ = "LASER" => Len(fout.raw_measurements_) = 2
        /\ fout.sensor_type_ = "RADAR" => Len(fout.raw_measurements_) = 3
        /\ LET k == Len(fout.raw_measurements_) + 2
           IN  /\ Len(fin) >= k
               /\ fin[k] \in NumTokens
               /\ fout.timestamp_ = ParseNum(fin[k])

Contains(str, c) == \E i \in 1 .. Len(str) : str[i] = c

ContainsNull(str) ==
    \E i \in 1 .. Len(str) - 3 : SubSeq(str, i, i + 3) = NULL_STR

First(str, c) ==
    CHOOSE i \in 1 .. Len(str) : str[i] = c /\ \A j \in 1 .. i - 1 : str[j] # c

\* C5: hasData returns "" when the string contains "null" or lacks a '[' or
\* a ']', and otherwise "" or the substring from the first '[' to the first
\* ']' inclusive: a result that is not empty begins with '[' and ends
\* with ']'.
C5_HasDataBracketed ==
    pc = "hasData_done" =>
        /\ (ContainsNull(fin) \/ ~Contains(fin, "[") \/ ~Contains(fin, "]"))
               => fout = << >>
        /\ fout # << >> =>
               /\ fout = SubSeq(fin, First(fin, "["), First(fin, "]"))
               /\ Head(fout) = "["
               /\ fout[Len(fout)] = "]"

\* C6: in simulator mode the two CSV paths play no part: the run does not
\* end with EXIT_FAILURE over them and the output file is not created or
\* truncated.
C6_FilesOnlyInFileMode ==
    (pc # "start" /\ use_simulator) =>
        /\ pc # "exit_failure"
        /\ ~outTruncated

\* the argument of the last --filter option, or the default
RECURSIVE LastChoice(_)
LastChoice(opts) ==
    IF opts = << >> THEN "ukf"
    ELSE IF opts[Len(opts)][1] = "f" THEN opts[Len(opts)][2]
    ELSE LastChoice(SubSeq(opts, 1, Len(opts) - 1))

\* C7: once the arguments are parsed, one filter is constructed: the UKF for
\* --filter ukf (and by default), the EKF for --filter ekf, with the parsed
\* verbose, use_laser, use_radar, std_a and std_yawdd in that order; no
\* second filter is made, and the filter's state is what the latest
\* ProcessMeasurement call left.
C7_FilterChosenOnce ==
    /\ heap.created <= 1
    /\ heap.created = 0 => filter = NoFilter
    /\ heap.created = 1 =>
          /\ LastChoice(argv) = "ukf" => filter.kind = "UKF"
          /\ LastChoice(argv) = "ekf" => filter.kind = "EKF"
          /\ filter.kind \in { "UKF", "EKF" }
          /\ filter.verbose = verbose
          /\ filter.use_laser = use_laser
          /\ filter.use_radar = use_radar
          /\ filter.std_a = std_a
          /\ filter.std_yawdd = std_yawdd
          /\ filter.x_ = IF calls = << >> THEN << >>
                         ELSE calls[Len(calls)].x_after
    /\ pc \in { "open", "mode", "run", "loop", "report", "done" }
          => heap.created = 1

\* An EKF chosen by --filter ekf, the last of two --filter options, with the
\* radar switched off on the command line, has processed a measurement
C7_Witness ==
    /\ LastChoice(argv) = "ekf"
    /\ filter.kind = "EKF"
    /\ ~filter.use_radar
    /\ Len(calls) >= 1

\* C8, for the replay of a file: each NIS counter is at most the step
\* counter, and whenever the final report is printed the step counter is
\* positive and both percentages lie in [0, 100].
C8_PercentagesInRange ==
    /\ filter.nis_laser_counter_ + filter.nis_radar_counter_ <= filter.timestep_
    /\ (report.printed /\ ~use_simulator) =>
          /\ filter.timestep_ > 0
          /\ report.nis_laser.is = "finite"
          /\ report.nis_laser.val \in 0 .. 100
          /\ report.nis_radar.is = "finite"
          /\ report.nis_radar.val \in 0 .. 100

\* line 216, as the claim states it
C9_Prefix(d) == StrLen(d) > 2 /\ SubSeq(d, 1, 2) = << "4", "2" >>

\* C9: the handling of one message calls the filter at most once, and only
\* for a message longer than 2 characters that starts with "42", for which
\* hasData is not empty and whose event is "telemetry"; it sends "manual"
\* exactly when the message passes the prefix check and hasData is empty; it
\* sends at most one reply; and a message that is no telemetry event with
\* data leaves the filter, estimations and ground_truth as they were.
C9_Step ==
    (pc = "run" /\ steps' = steps + 1) =>
        LET m    == last'
            data == hasData(m.str)
            tele == /\ C9_Prefix(m.data)
                    /\ data # << >>
                    /\ JsonParse(data).ok
                    /\ JsonParse(data).event = "telemetry"
        IN  /\ m.handled
            /\ m.ncalls \in { 0, 1 }
            /\ Len(calls') = Len(calls) + m.ncalls
            /\ m.ncalls = 1 => tele
            /\ Len(m.replies) <= 1
            /\ ws_sent' = ws_sent \o m.replies
            /\ (\E i \in 1 .. Len(m.replies) : IsManual(m.replies[i]))
                  <=> (C9_Prefix(m.data) /\ data = << >>)
            /\ ~tele => UNCHANGED << filter, estimations, ground_truth >>

C9_OnMessage == [][C9_Step]_vars

\* One message was answered "manual" and another went through the filter
C9_Witness ==
    /\ pc = "run"
    /\ Len(ws_sent) = 2
    /\ IsManual(ws_sent[1])
    /\ IsMarker(ws_sent[2])
    /\ last.ncalls = 1

\* C10, for the replay of a file: the RMSE the final report reads has 4
\* components and was computed by CalculateRMSE over all the estimations of
\* the run.
C10_ReportReadsRMSE ==
    (report.printed /\ ~use_simulator) =>
        /\ report.rmse.size = 4
        /\ report.rmse.n = Len(estimations)

=============================================================================
